---------------------------- MODULE Spec2Model ----------------------------
(***************************************************************************)
(* Model of ploomber's LocalStorageClient (clients/storage/local.py) and   *)
(* of the default-location functions (util/default.py).                    *)
(*                                                                         *)
(* A filesystem is a function from absolute, normalised paths (sequences   *)
(* of component names, <<>> being "/") to nodes.  A path VALUE, as handed  *)
(* to the code, is a record [abs, parts]: it may be relative and may hold  *)
(* ".." components; it designates a location only once resolved against   *)
(* a working directory.                                                    *)
(***************************************************************************)
EXTENDS Integers, Sequences, FiniteSets, TLC

VARIABLES fs,       \* the filesystem: absolute path -> node
          cwd,      \* the process's working directory (absolute path)
          clients,  \* client id -> NoClient or the fields of a LocalStorageClient
          last,     \* the last call made: operation, arguments, outcome
          env,      \* os.environ: the two override variables
          run       \* the operations concurrent tasks have in progress

vars == <<fs, cwd, clients, last, env, run>>

-----------------------------------------------------------------------------
(* Bounds of the model *)

\* number of distinct file contents
MaxData == 2

\* number of client instances that may be constructed
MaxClients == 2

-----------------------------------------------------------------------------
(* Paths *)

DirNode == [kind |-> "dir", data |-> 0]
FileNode(c) == [kind |-> "file", data |-> c]

Abs(parts) == [abs |-> TRUE, parts |-> parts]
Rel(parts) == [abs |-> FALSE, parts |-> parts]

\* the absent value (None)
None == [abs |-> FALSE, parts |-> <<"<None>">>]

\* the empty string ('')
Empty == [abs |-> FALSE, parts |-> <<"<empty>">>]

\* the truth value of an optional string or path (if x:): None and '' are
\* false, every path object is true
Truthy(x) == x # None /\ x # Empty

IsPrefix(p, q) == Len(p) <= Len(q) /\ SubSeq(q, 1, Len(p)) = p

Suffix(p, q) == SubSeq(q, Len(p) + 1, Len(q))

\* pathlib's Path.parent on an absolute normalised path ("/" is its own parent)
Parent(p) == IF p = <<>> THEN <<>> ELSE SubSeq(p, 1, Len(p) - 1)

Prefixes(p) == {SubSeq(p, 1, k) : k \in 0..Len(p)}

\* ".." collapsed against the component before it (".." at "/" stays at "/")
RECURSIVE Normalize(_)
Normalize(parts) ==
    IF parts = <<>> THEN <<>>
    ELSE LET init == Normalize(SubSeq(parts, 1, Len(parts) - 1))
             x == parts[Len(parts)]
         IN  IF x = ".." THEN Parent(init) ELSE Append(init, x)

\* Path(x).resolve(): absolute, against the working directory, normalised
Resolve(p, wd) == Normalize(IF p.abs THEN p.parts ELSE wd \o p.parts)

\* Path(a, b)
Join(a, parts) == [abs |-> a.abs, parts |-> a.parts \o parts]

\* the length of the longest common prefix of two paths
RECURSIVE CommonLen(_, _)
CommonLen(p, q) ==
    IF p = <<>> \/ q = <<>> \/ Head(p) # Head(q) THEN 0
    ELSE 1 + CommonLen(Tail(p), Tail(q))

\* os.path.relpath(target, start=start), both absolute and normalised
RelPath(target, start) ==
    LET k == CommonLen(target, start)
    IN  Rel([i \in 1..(Len(start) - k) |-> ".."]
              \o SubSeq(target, k + 1, Len(target)))

\* Path(x).parent of a path value (the parent of a bare name is ".")
ParentOf(p) == [abs |-> p.abs,
                parts |-> IF p.parts = <<>> THEN <<>>
                          ELSE SubSeq(p.parts, 1, Len(p.parts) - 1)]

-----------------------------------------------------------------------------
(* Filesystem primitives *)

Exists(f, p) == p \in DOMAIN f
IsFile(f, p) == p \in DOMAIN f /\ f[p].kind = "file"
IsDir(f, p) == p \in DOMAIN f /\ f[p].kind = "dir"

\* the entries strictly below directory p
Below(f, p) == {q \in DOMAIN f : IsPrefix(p, q) /\ q # p}

\* the content found at p: what kind of entry and, for a directory, its whole
\* subtree, keyed by the path relative to p
Content(f, p) ==
    IF ~Exists(f, p) THEN [kind |-> "absent", tree |-> {}]
    ELSE [kind |-> f[p].kind,
          tree |-> {<<Suffix(p, q), f[q]>> : q \in {p} \cup Below(f, p)}]

\* Path.mkdir(parents=True, exist_ok=True)
Mkdirs(f, p) ==
    IF \E q \in Prefixes(p) : q # p /\ IsFile(f, q)
      THEN [out |-> "NotADirectoryError", fs |-> f]
    ELSE IF IsFile(f, p)
      THEN [out |-> "FileExistsError", fs |-> f]
    ELSE [out |-> "ok",
          fs |-> [q \in DOMAIN f \cup Prefixes(p) |->
                    IF q \in DOMAIN f THEN f[q] ELSE DirNode]]

\* shutil.copy(src, dst), src a regular file
CopyFile(f, src, dst) ==
    LET target == IF IsDir(f, dst) THEN Append(dst, src[Len(src)]) ELSE dst
    IN  IF target = src THEN [out |-> "SameFileError", fs |-> f]
        ELSE IF ~Exists(f, src) THEN [out |-> "FileNotFoundError", fs |-> f]
        ELSE IF IsDir(f, src) \/ IsDir(f, target)
          THEN [out |-> "IsADirectoryError", fs |-> f]
        ELSE IF \E q \in Prefixes(Parent(target)) : IsFile(f, q)
          THEN [out |-> "NotADirectoryError", fs |-> f]
        ELSE IF ~IsDir(f, Parent(target))
          THEN [out |-> "FileNotFoundError", fs |-> f]
        ELSE [out |-> "ok",
              fs |-> [q \in DOMAIN f \cup {target} |->
                        IF q = target THEN f[src] ELSE f[q]]]

\* shutil.copytree(src, dst) (dirs_exist_ok=False)
CopyTree(f, src, dst) ==
    IF \E q \in Prefixes(src) : q # src /\ IsFile(f, q)
      THEN [out |-> "NotADirectoryError", fs |-> f]
    ELSE IF ~Exists(f, src) THEN [out |-> "FileNotFoundError", fs |-> f]
    ELSE IF IsFile(f, src) THEN [out |-> "NotADirectoryError", fs |-> f]
    ELSE IF Exists(f, dst) THEN [out |-> "FileExistsError", fs |-> f]
    ELSE IF \E q \in Prefixes(dst) : IsFile(f, q)
      THEN [out |-> "NotADirectoryError", fs |-> f]
    ELSE LET made == Mkdirs(f, dst).fs
             new == {dst \o Suffix(src, q) : q \in Below(f, src)}
         IN  [out |-> "ok",
              fs |-> [q \in DOMAIN made \cup new |->
                        IF q \in new THEN f[src \o Suffix(dst, q)]
                        ELSE made[q]]]

-----------------------------------------------------------------------------
(* util/default.py: the bounded walk up the parent directories *)

\* max_levels_up=6, as passed by entry_point and find_root_recursively
MaxLevelsUp == 6

NotFound == [found |-> FALSE, path |-> <<>>]

\* a faulty variant: the walk goes on up to the filesystem's root
RECURSIVE FindUp_Unbounded(_, _, _, _)
FindUp_Unbounded(f, dir, name, n) ==
    IF Exists(f, Append(dir, name))
      THEN [found |-> TRUE, path |-> Append(dir, name)]
    ELSE IF dir = <<>> THEN NotFound
    ELSE FindUp_Unbounded(f, Parent(dir), name, n)

\* the loop of find_file_recursively: n directories are probed, the starting
\* one first, each time moving to the parent
RECURSIVE FindUp(_, _, _, _)
FindUp(f, dir, name, n) ==
    IF n = 0 THEN NotFound
    ELSE IF Exists(f, Append(dir, name))
      THEN [found |-> TRUE, path |-> Append(dir, name)]
    ELSE FindUp(f, Parent(dir), name, n - 1)

\* find_file_recursively(name, max_levels_up, starting_dir)
find_file_recursively(f, wd, name, levels, start) ==
    FindUp(f, IF start = None THEN wd ELSE Resolve(start, wd), name, levels)

\* the marker names, in the order find_root_recursively tries them
Options == <<"environment.yml", "environment.lock.yml", "requirements.txt",
             "requirements.lock.txt", "setup.py">>

\* a faulty variant: the directories are visited nearest first, each one
\* looked into for every marker name before the walk goes up
RECURSIVE NearestFirst(_, _, _)
NearestFirst(f, dir, n) ==
    IF n = 0 THEN NotFound
    ELSE IF \E j \in 1..Len(Options) : Exists(f, Append(dir, Options[j]))
      THEN [found |-> TRUE, path |-> dir]
    ELSE NearestFirst(f, Parent(dir), n - 1)

FindRootFrom_NearestFirst(f, wd, start, i) ==
    NearestFirst(f, IF start = None THEN wd ELSE Resolve(start, wd),
                 MaxLevelsUp)

\* a faulty variant: the marker names are tried from the last to the first
RECURSIVE FindRootFrom_LastFirst(_, _, _, _)
FindRootFrom_LastFirst(f, wd, start, i) ==
    IF i > Len(Options) THEN NotFound
    ELSE LET name == Options[Len(Options) + 1 - i]
             r == find_file_recursively(f, wd, name, MaxLevelsUp, start)
         IN  IF r.found THEN [found |-> TRUE, path |-> Parent(r.path)]
             ELSE FindRootFrom_LastFirst(f, wd, start, i + 1)

\* the loop of find_root_recursively, from the i-th marker name on: the
\* whole walk up is made for one name before the next name is tried
RECURSIVE FindRootFrom(_, _, _, _)
FindRootFrom(f, wd, start, i) ==
    IF i > Len(Options) THEN NotFound
    ELSE LET r == find_file_recursively(f, wd, Options[i], MaxLevelsUp, start)
         IN  IF r.found THEN [found |-> TRUE, path |-> Parent(r.path)]
             ELSE FindRootFrom(f, wd, start, i + 1)

\* find_root_recursively(starting_dir, raise_): the root found, None, or the
\* "Could not determine project's root directory" ValueError
find_root_recursively(f, wd, start, raise_) ==
    LET r == FindRootFrom(f, wd, start, 1)
    IN  IF r.found THEN [out |-> "ok", path |-> Abs(r.path)]
        ELSE IF raise_ THEN [out |-> "ValueError", path |-> None]
        ELSE [out |-> "ok", path |-> None]

-----------------------------------------------------------------------------
(* util/default.py: the default entry point *)

\* name=None
NoName == "<None>"

\* FILENAME = 'pipeline.yaml' if name is None else f'pipeline.{name}.yaml'
Filename(name) ==
    IF name = NoName THEN "pipeline.yaml" ELSE "pipeline." \o name \o ".yaml"

\* the names a directory under src/ may bear, as sorted() orders them
PkgNames == <<"a.egg-info", "pkg", "zpkg">>

\* str(Path(f).parent).endswith('.egg-info')
IsEggInfo(d) == d \in {"a.egg-info"}

\* a faulty variant: the location in the package "pkg" is returned without
\* looking whether it exists
package_location_Unchecked(f, wd, root_path, filename) ==
    Join(root_path, <<"src", "pkg", filename>>)

\* a faulty variant: the .egg-info directories are not left out
package_location_WithEggInfo(f, wd, root_path, filename) ==
    LET at(i) == Join(root_path, <<"src", PkgNames[i], filename>>)
        candidates == {i \in 1..Len(PkgNames) : Exists(f, Resolve(at(i), wd))}
    IN  IF candidates = {} THEN None
        ELSE at(CHOOSE i \in candidates : \A j \in candidates : i <= j)

\* _package_location(root_path, name): the first, in sorted order, of the
\* existing root_path/src/*/name whose directory is no .egg-info; the path
\* is built on root_path as given, it is not made absolute
package_location(f, wd, root_path, filename) ==
    LET at(i) == Join(root_path, <<"src", PkgNames[i], filename>>)
        candidates == {i \in 1..Len(PkgNames) :
                         /\ Exists(f, Resolve(at(i), wd))
                         /\ ~IsEggInfo(PkgNames[i])}
    IN  IF candidates = {} THEN None
        ELSE at(CHOOSE i \in candidates : \A j \in candidates : i <= j)

\* a faulty variant: ENTRY_POINT is returned only when it names something
\* that exists
entry_point_OverrideChecked(f, wd, e, root_path, name) ==
    IF Truthy(e.ENTRY_POINT) /\ Exists(f, Resolve(e.ENTRY_POINT, wd))
      THEN [out |-> "ok", path |-> e.ENTRY_POINT]
    ELSE [out |-> "DAGSpecNotFound", path |-> None]

\* a faulty variant: the package location under the project root is
\* returned as it was found, not made relative to root_path
entry_point_RootNotRelative(f, wd, e, root_path, name) ==
    LET root == IF Truthy(root_path) THEN root_path ELSE Rel(<<>>)
        FILENAME == Filename(name)
        pkg_location == package_location(f, wd, root, FILENAME)
        parent_location ==
            find_file_recursively(f, wd, FILENAME, MaxLevelsUp, root)
        root_project == find_root_recursively(f, wd, root, FALSE).path
        pkg_in_project ==
            IF root_project = None THEN None
            ELSE package_location(f, wd, root_project, FILENAME)
    IN  IF Truthy(e.ENTRY_POINT)
          THEN [out |-> "ok", path |-> e.ENTRY_POINT]
        ELSE IF ~Exists(f, Resolve(Join(root, <<FILENAME>>), wd))
                  /\ pkg_location # None
          THEN [out |-> "ok", path |-> pkg_location]
        ELSE IF parent_location.found
          THEN [out |-> "ok",
                path |-> RelPath(parent_location.path, Resolve(root, wd))]
        ELSE IF pkg_in_project # None
          THEN [out |-> "ok", path |-> pkg_in_project]
        ELSE [out |-> "DAGSpecNotFound", path |-> None]

\* entry_point(root_path, name), e the environment variables
entry_point(f, wd, e, root_path, name) ==
    LET root == IF Truthy(root_path) THEN root_path ELSE Rel(<<>>)
        FILENAME == Filename(name)
        pkg_location == package_location(f, wd, root, FILENAME)
        relative_to_root_path == Join(root, <<FILENAME>>)
        parent_location ==
            find_file_recursively(f, wd, FILENAME, MaxLevelsUp, root)
        root_project == find_root_recursively(f, wd, root, FALSE).path
        pkg_in_project ==
            IF root_project = None THEN None
            ELSE package_location(f, wd, root_project, FILENAME)
    IN  IF Truthy(e.ENTRY_POINT)
          THEN [out |-> "ok", path |-> e.ENTRY_POINT]
        ELSE IF ~Exists(f, Resolve(relative_to_root_path, wd))
                  /\ pkg_location # None
          THEN [out |-> "ok", path |-> pkg_location]
        ELSE IF parent_location.found
          THEN [out |-> "ok",
                path |-> RelPath(parent_location.path, Resolve(root, wd))]
        ELSE IF pkg_in_project # None
          THEN [out |-> "ok",
                path |-> RelPath(Resolve(pkg_in_project, wd),
                                 Resolve(root, wd))]
        ELSE [out |-> "DAGSpecNotFound", path |-> None]

\* a faulty variant: when the file lies in both places the package's one
\* is returned
entry_point_relative_PreferPackage(f, wd, name) ==
    LET FILENAME == Filename(name)
        location_pkg == package_location(f, wd, Rel(<<>>), FILENAME)
    IN  IF location_pkg # None THEN [out |-> "ok", path |-> location_pkg]
        ELSE IF Exists(f, Append(wd, FILENAME))
          THEN [out |-> "ok", path |-> Rel(<<FILENAME>>)]
        ELSE [out |-> "DAGSpecNotFound", path |-> None]

\* entry_point_relative(name)
entry_point_relative(f, wd, name) ==
    LET FILENAME == Filename(name)
        location_pkg == package_location(f, wd, Rel(<<>>), FILENAME)
        location == IF Exists(f, Resolve(Rel(<<FILENAME>>), wd))
                      THEN Rel(<<FILENAME>>) ELSE None
    IN  IF location_pkg # None /\ location # None
          THEN [out |-> "ValueError", path |-> None]
        ELSE IF location_pkg = None /\ location = None
          THEN [out |-> "DAGSpecNotFound", path |-> None]
        ELSE [out |-> "ok",
              path |-> IF location_pkg # None THEN location_pkg ELSE location]

-----------------------------------------------------------------------------
(* util/default.py: the env file *)

\* name.split('.'), for the file names met here
Segments(filename) ==
    CASE filename = "pipeline.yaml" -> <<"pipeline", "yaml">>
      [] filename = "pipeline.train.yaml" -> <<"pipeline", "train", "yaml">>
      [] OTHER -> <<filename>>

\* extract_name(path): the second of the dot-separated segments of the file
\* name when there are three or more, else None
extract_name(path) ==
    LET parts == Segments(path.parts[Len(path.parts)])
    IN  IF Len(parts) < 3 THEN NoName ELSE parts[2]

\* Path(path).suffix is not empty
HasSuffix(path) == Len(Segments(path.parts[Len(path.parts)])) >= 2

\* filename = 'env.yaml' if name is None else f'env.{name}.yaml'
EnvFilename(name) ==
    IF name = NoName THEN "env.yaml" ELSE "env." \o name \o ".yaml"

\* path_to_env_with_name(name, path_to_parent), e the environment variables
path_to_env_with_name(f, wd, e, name, path_to_parent) ==
    LET env_var == e.PLOOMBER_ENV_FILENAME
        filename == IF Truthy(env_var) THEN env_var.parts
                    ELSE <<EnvFilename(name)>>
        local_env == Resolve(Rel(filename), wd)
        sibling_env == Resolve(Join(path_to_parent, filename), wd)
    IN  IF Truthy(env_var) /\ (env_var.abs \/ Len(env_var.parts) > 1)
          THEN \* Path(path_to_parent) comes before the ValueError is raised
               IF path_to_parent = None
                 THEN [out |-> "TypeError", path |-> None]
               ELSE [out |-> "ValueError", path |-> None]
        ELSE IF Exists(f, local_env)
          THEN [out |-> "ok", path |-> Abs(local_env)]
        ELSE IF Truthy(path_to_parent) /\ Exists(f, sibling_env)
          THEN [out |-> "ok", path |-> Abs(sibling_env)]
        ELSE IF Truthy(env_var)
          THEN \* the message reads sibling_env, bound only at line 249
               IF Truthy(path_to_parent)
                 THEN [out |-> "FileNotFoundError", path |-> None]
               ELSE [out |-> "UnboundLocalError", path |-> None]
        ELSE [out |-> "ok", path |-> None]

\* path_to_env(path_to_spec)
path_to_env(f, wd, e, path_to_spec) ==
    LET path_to_parent == IF path_to_spec = None THEN None
                          ELSE ParentOf(path_to_spec)
        name == IF path_to_parent = None THEN NoName
                ELSE extract_name(path_to_spec)
        path == path_to_env_with_name(f, wd, e, name, path_to_parent)
    IN  IF path_to_spec # None /\ IsDir(f, Resolve(path_to_spec, wd))
          THEN [out |-> "ValueError", path |-> None]
        ELSE IF path_to_spec # None /\ ~HasSuffix(path_to_spec)
          THEN [out |-> "ValueError", path |-> None]
        ELSE IF name = NoName
          THEN path_to_env_with_name(f, wd, e, NoName, path_to_parent)
        ELSE IF path = [out |-> "ok", path |-> None]
          THEN path_to_env_with_name(f, wd, e, NoName, path_to_parent)
        ELSE path

-----------------------------------------------------------------------------
(* clients/storage/local.py *)

NoClient == [made |-> FALSE, backup |-> None, root |-> <<>>]

\* clients/storage/util.py, _resolve: the local path made absolute and
\* canonical (against the working directory of the call)
ResolveLocal(local, wd) == Resolve(local, wd)

\* LocalStorageClient.__init__
Construct(f, wd, backup, rootArg) ==
    LET mk == Mkdirs(f, Resolve(backup, wd))
        found == IF Truthy(rootArg) THEN [out |-> "ok", path |-> rootArg]
                 ELSE find_root_recursively(mk.fs, wd, None, TRUE)
    IN  IF mk.out # "ok" THEN [out |-> mk.out, fs |-> mk.fs, client |-> NoClient]
        ELSE IF found.out # "ok"
          THEN [out |-> found.out, fs |-> mk.fs, client |-> NoClient]
        ELSE [out |-> "ok", fs |-> mk.fs,
              client |-> [made |-> TRUE, backup |-> backup,
                          root |-> Resolve(found.path, wd)]]

\* a faulty variant: the relative path computed with os.path.relpath, which never fails
RemotePath_Relpath(c, local, wd) ==
    [out |-> "ok",
     path |-> Join(c.backup, RelPath(ResolveLocal(local, wd), c.root).parts)]

\* a faulty variant: a flat mirror: the file name alone is kept
RemotePath_Flat(c, local, wd) ==
    LET a == ResolveLocal(local, wd)
    IN  IF IsPrefix(c.root, a)
          THEN [out |-> "ok",
                path |-> Join(c.backup, SubSeq(a, Len(a), Len(a)))]
        ELSE [out |-> "ValueError", path |-> None]

\* LocalStorageClient._remote_path
RemotePath(c, local, wd) ==
    LET a == ResolveLocal(local, wd)
    IN  IF IsPrefix(c.root, a)
          THEN [out |-> "ok", path |-> Join(c.backup, Suffix(c.root, a))]
        ELSE [out |-> "ValueError", path |-> None]

\* LocalStorageClient._remote_exists
RemoteExists(f, wd, c, local) ==
    LET rp == RemotePath(c, local, wd)
    IN  IF rp.out # "ok" THEN [out |-> rp.out, fs |-> f]
        ELSE IF Exists(f, Resolve(rp.path, wd)) THEN [out |-> "True", fs |-> f]
        ELSE [out |-> "False", fs |-> f]

\* a faulty variant: the destination itself is created as a directory, not its parent
Download_MkdirDest(f, wd, c, local, destination) ==
    LET rp == RemotePath(c, local, wd)
        dest == IF destination = None THEN local ELSE destination
        mk == Mkdirs(f, Resolve(dest, wd))
        remote == Resolve(rp.path, wd)
    IN  IF rp.out # "ok" THEN [out |-> rp.out, fs |-> f]
        ELSE IF mk.out # "ok" THEN mk
        ELSE IF IsFile(mk.fs, remote)
          THEN CopyFile(mk.fs, remote, Resolve(dest, wd))
        ELSE IF IsDir(mk.fs, remote)
          THEN CopyTree(mk.fs, remote, Resolve(dest, wd))
        ELSE [out |-> "RemoteFileNotFound", fs |-> mk.fs]

\* LocalStorageClient.download
Download(f, wd, c, local, destination) ==
    LET rp == RemotePath(c, local, wd)
        dest == IF destination = None THEN local ELSE destination
        mk == Mkdirs(f, Resolve(ParentOf(dest), wd))
        remote == Resolve(rp.path, wd)
    IN  IF rp.out # "ok" THEN [out |-> rp.out, fs |-> f]
        ELSE IF mk.out # "ok" THEN mk
        ELSE IF IsFile(mk.fs, remote)
          THEN CopyFile(mk.fs, remote, Resolve(dest, wd))
        ELSE IF IsDir(mk.fs, remote)
          THEN CopyTree(mk.fs, remote, Resolve(dest, wd))
        ELSE [out |-> "RemoteFileNotFound", fs |-> mk.fs]

\* LocalStorageClient.upload
Upload(f, wd, c, local) ==
    LET rp == RemotePath(c, local, wd)
        remote == Resolve(rp.path, wd)
        mk == Mkdirs(f, Resolve(ParentOf(rp.path), wd))
    IN  IF rp.out # "ok" THEN [out |-> rp.out, fs |-> f]
        ELSE IF mk.out # "ok" THEN mk
        ELSE IF IsFile(mk.fs, Resolve(local, wd))
          THEN CopyFile(mk.fs, Resolve(local, wd), remote)
        ELSE CopyTree(mk.fs, Resolve(local, wd), remote)

-----------------------------------------------------------------------------
(* clients/storage/local.py, system call by system call: what a task has   *)
(* done of a call while another task runs.  A task is a record: the call   *)
(* (op, arg, dest), where it stands in it (pc), the paths it works on, its *)
(* outcome once done.                                                      *)

Task(op, arg, dest) ==
    [op |-> op, arg |-> arg, dest |-> dest, pc |-> "idle", out |-> "none",
     res |-> None, mk |-> <<>>, src |-> <<>>, dst |-> <<>>, tree |-> FALSE,
     errs |-> FALSE, todo |-> {}, cur |-> <<>>, cursrc |-> <<>>]

\* the call returns, or raises, out
Finish(t, out) ==
    [Task(t.op, t.arg, t.dest) EXCEPT !.pc = "done", !.out = out]

\* the names of the entries of directory p (os.scandir)
Children(f, p) == {<<q[Len(q)]>> : q \in {r \in Below(f, p) : Len(r) = Len(p) + 1}}

\* open(p, 'wb'): the file is there, empty, before the content is written
Truncate(f, p) == [q \in DOMAIN f \cup {p} |-> IF q = p THEN FileNode(0) ELSE f[q]]

\* the call starts: _remote_path; for map and exists that is all there is
StartStep(f, wd, c, t) ==
    LET rp == RemotePath(c, t.arg, wd)
    IN  IF rp.out # "ok" THEN [fs |-> f, task |-> Finish(t, rp.out)]
        ELSE IF t.op = "map"
          THEN [fs |-> f, task |-> [Finish(t, "ok") EXCEPT !.res = rp.path]]
        ELSE IF t.op = "exists"
          THEN [fs |-> f, task |-> Finish(t, RemoteExists(f, wd, c, t.arg).out)]
        ELSE IF t.op = "upload"
          THEN [fs |-> f,
                task |-> [t EXCEPT !.pc = "mkdir",
                                   !.mk = Resolve(ParentOf(rp.path), wd),
                                   !.src = Resolve(t.arg, wd),
                                   !.dst = Resolve(rp.path, wd)]]
        ELSE [fs |-> f,
              task |-> [t EXCEPT
                          !.pc = "mkdir",
                          !.mk = Resolve(ParentOf(IF t.dest = None THEN t.arg
                                                  ELSE t.dest), wd),
                          !.src = Resolve(rp.path, wd),
                          !.dst = Resolve(IF t.dest = None THEN t.arg
                                          ELSE t.dest, wd)]]

\* a faulty variant: the missing directories are looked for first, then
\* created with exist_ok=False
MkdirStep_CheckFirst(f, t) ==
    LET missing == {q \in Prefixes(t.mk) : ~Exists(f, q)}
        q == CHOOSE q \in t.todo : \A r \in t.todo : Len(q) <= Len(r)
    IN  IF t.todo = {}
          THEN IF Mkdirs(f, t.mk).out # "ok"
                 THEN [fs |-> f, task |-> Finish(t, Mkdirs(f, t.mk).out)]
               ELSE IF missing = {}
                 THEN [fs |-> f, task |-> [t EXCEPT !.pc = "test"]]
               ELSE [fs |-> f, task |-> [t EXCEPT !.todo = missing]]
        ELSE IF Exists(f, q)
          THEN [fs |-> f, task |-> Finish(t, "FileExistsError")]
        ELSE [fs |-> Mkdirs(f, q).fs,
              task |-> [t EXCEPT !.todo = t.todo \ {q},
                                 !.pc = IF t.todo = {q} THEN "test"
                                        ELSE "mkdir"]]

\* Path.mkdir(parents=True, exist_ok=True), one os.mkdir at a time: the
\* topmost missing directory is created; a directory that is there already,
\* whoever made it, is fine
MkdirStep(f, t) ==
    LET missing == {q \in Prefixes(t.mk) : ~Exists(f, q)}
        q == CHOOSE q \in missing : \A r \in missing : Len(q) <= Len(r)
    IN  IF Mkdirs(f, t.mk).out # "ok"
          THEN [fs |-> f, task |-> Finish(t, Mkdirs(f, t.mk).out)]
        ELSE IF missing = {}
          THEN [fs |-> f, task |-> [t EXCEPT !.pc = "test"]]
        ELSE [fs |-> Mkdirs(f, q).fs,
              task |-> [t EXCEPT !.pc = IF missing = {q} THEN "test"
                                        ELSE "mkdir"]]

\* Path(local).is_file() in upload, remote.is_file() in download
TestStep(f, t) ==
    IF IsFile(f, t.src) THEN [fs |-> f, task |-> [t EXCEPT !.pc = "open"]]
    ELSE IF t.op = "upload"
      THEN [fs |-> f, task |-> [t EXCEPT !.pc = "list", !.tree = TRUE]]
    ELSE [fs |-> f, task |-> [t EXCEPT !.pc = "test2"]]

\* remote.is_dir() in download
Test2Step(f, t) ==
    IF IsDir(f, t.src)
      THEN [fs |-> f, task |-> [t EXCEPT !.pc = "list", !.tree = TRUE]]
    ELSE [fs |-> f, task |-> Finish(t, "RemoteFileNotFound")]

\* shutil.copy, first half: both files are opened, the target is truncated
OpenStep(f, t) ==
    LET target == IF IsDir(f, t.dst) THEN Append(t.dst, t.src[Len(t.src)])
                  ELSE t.dst
        r == CopyFile(f, t.src, t.dst)
    IN  IF r.out # "ok" THEN [fs |-> f, task |-> Finish(t, r.out)]
        ELSE [fs |-> Truncate(f, target),
              task |-> [t EXCEPT !.pc = "write", !.cur = target,
                                 !.cursrc = t.src]]

\* shutil.copy (and copy2), second half: the content is copied
WriteStep(f, t) ==
    [fs |-> [f EXCEPT ![t.cur] = f[t.cursrc]],
     task |-> IF t.tree
                THEN [t EXCEPT !.pc = "entries", !.cur = <<>>, !.cursrc = <<>>]
              ELSE Finish(t, "ok")]

\* shutil.copytree, the beginning: the entries are listed, os.makedirs(dst)
ListStep(f, t) ==
    LET r == CopyTree(f, t.src, t.dst)
    IN  IF r.out # "ok" THEN [fs |-> f, task |-> Finish(t, r.out)]
        ELSE [fs |-> Mkdirs(f, t.dst).fs,
              task |-> [t EXCEPT !.pc = "entries",
                                 !.todo = Children(f, t.src)]]

\* shutil.copytree, one entry rel of those still to copy: a directory is
\* created and its entries listed; the copy of a file begins; what fails is
\* kept for the shutil.Error raised at the end
EntryStep(f, t, rel) ==
    LET s == t.src \o rel
        d == t.dst \o rel
        target == IF IsDir(f, d) THEN Append(d, s[Len(s)]) ELSE d
        rest == t.todo \ {rel}
        failed == [fs |-> f, task |-> [t EXCEPT !.todo = rest, !.errs = TRUE]]
    IN  IF IsDir(f, s)
          THEN IF Exists(f, d) THEN failed
               ELSE [fs |-> Mkdirs(f, d).fs,
                     task |-> [t EXCEPT
                                 !.todo = rest \cup {rel \o n : n \in Children(f, s)}]]
        ELSE IF IsFile(f, s)
          THEN IF CopyFile(f, s, d).out # "ok" THEN failed
               ELSE [fs |-> Truncate(f, target),
                     task |-> [t EXCEPT !.todo = rest, !.pc = "write",
                                        !.cur = target, !.cursrc = s]]
        ELSE failed

\* what the next system call of task t may do
TaskStep(f, wd, c, t) ==
    CASE t.pc = "idle" -> {StartStep(f, wd, c, t)}
      [] t.pc = "mkdir" -> {MkdirStep(f, t)}
      [] t.pc = "test" -> {TestStep(f, t)}
      [] t.pc = "test2" -> {Test2Step(f, t)}
      [] t.pc = "open" -> {OpenStep(f, t)}
      [] t.pc = "write" -> {WriteStep(f, t)}
      [] t.pc = "list" -> {ListStep(f, t)}
      [] t.pc = "entries" ->
           IF t.todo = {}
             THEN {[fs |-> f,
                    task |-> Finish(t, IF t.errs THEN "Error" ELSE "ok")]}
           ELSE {EntryStep(f, t, rel) : rel \in t.todo}
      [] OTHER -> {}

\* the whole call, made alone
WholeCall(f, wd, c, t) ==
    IF t.op = "map"
      THEN [out |-> RemotePath(c, t.arg, wd).out, fs |-> f,
            res |-> RemotePath(c, t.arg, wd).path]
    ELSE IF t.op = "exists"
      THEN [out |-> RemoteExists(f, wd, c, t.arg).out, fs |-> f, res |-> None]
    ELSE IF t.op = "upload"
      THEN [out |-> Upload(f, wd, c, t.arg).out,
            fs |-> Upload(f, wd, c, t.arg).fs, res |-> None]
    ELSE [out |-> Download(f, wd, c, t.arg, t.dest).out,
          fs |-> Download(f, wd, c, t.arg, t.dest).fs, res |-> None]

-----------------------------------------------------------------------------
(* The storage client at work: a project /proj (its marker setup.py, a    *)
(* sub-directory s and, below it, a chain of directories deep enough for  *)
(* the walk up to stop short of /proj), a directory /out outside of the   *)
(* project, a backup directory /bk.  The product "x" is at times a file,  *)
(* at times a directory holding a file "y".                               *)

Proj == <<"proj">>
Sub == <<"proj", "s">>
Out == <<"out">>

Deep == <<"proj", "s", "a", "b", "c", "d", "e">>

Cwds == {Proj, Sub, Deep, Out}

BackupArgs == {Abs(<<"bk">>)}
RootArgs == {None, Abs(Proj)}
LocalArgs == {Rel(<<"x">>), Rel(<<"x", "y">>), Rel(<<"..", "out", "x">>)}
\* download's (local, destination) pairs: every local path with the default
\* destination, and one with a destination whose parent does not exist yet
DownloadArgs == {<<l, None>> : l \in LocalArgs}
                  \cup {<<Rel(<<"x", "y">>), Abs(<<"out", "n", "z">>)>>}

\* what the tasks and the user write, create and delete between two calls
ProductPaths == {Proj \o <<"x">>, Proj \o <<"x", "y">>}
MarkerPaths == {Proj \o <<"setup.py">>, Sub \o <<"requirements.txt">>}

NoCall == [op |-> "none", cid |-> 0, arg |-> None, dest |-> None,
           name |-> NoName, out |-> "none", res |-> None]

\* a call on client i (0: a call of a function of util/default.py)
Call(op, i, arg, dest, out, res) ==
    [op |-> op, cid |-> i, arg |-> arg, dest |-> dest, name |-> NoName,
     out |-> out, res |-> res]

\* no concurrent tasks
NoRun == [policy |-> "none", overlapped |-> FALSE, fs0 |-> <<>>,
          tasks |-> <<>>]

Fs0 == [p \in Prefixes(Deep) \cup {Out} |-> DirNode]
       @@ (Proj \o <<"setup.py">> :> FileNode(1))

\* neither override variable is set
NoEnv == [ENTRY_POINT |-> None, PLOOMBER_ENV_FILENAME |-> None]

Init ==
    /\ fs = Fs0
    /\ cwd = Proj
    /\ clients = [i \in 1..MaxClients |-> NoClient]
    /\ last = NoCall
    /\ env = NoEnv
    /\ run = NoRun

Made == {i \in 1..MaxClients : clients[i].made}

\* client = LocalStorageClient(backup, rootArg)
DoConstruct(i, backup, rootArg) ==
    /\ ~clients[i].made
    /\ \A j \in 1..(i - 1) : clients[j].made
    /\ LET r == Construct(fs, cwd, backup, rootArg)
       IN  /\ fs' = r.fs
           /\ clients' = [clients EXCEPT ![i] = r.client]
           /\ last' = Call("construct", i, backup, rootArg, r.out,
                           IF r.out = "ok" THEN Abs(r.client.root) ELSE None)
    /\ UNCHANGED <<run, cwd, env>>

\* a faulty variant: the project root is looked up again at every call
DoMap_Rederive(i, local) ==
    /\ clients[i].made
    /\ LET found == find_root_recursively(fs, cwd, None, FALSE)
           c == IF found.path = None THEN clients[i]
                ELSE [clients[i] EXCEPT !.root = found.path.parts]
           r == RemotePath(c, local, cwd)
       IN  /\ last' = Call("map", i, local, None, r.out, r.path)
           /\ clients' = [clients EXCEPT ![i] = c]
    /\ UNCHANGED <<run, fs, cwd, env>>

\* client._remote_path(local)
DoMap(i, local) ==
    /\ clients[i].made
    /\ LET r == RemotePath(clients[i], local, cwd)
       IN  last' = Call("map", i, local, None, r.out, r.path)
    /\ UNCHANGED <<run, fs, cwd, clients, env>>

\* client._remote_exists(local)
DoExists(i, local) ==
    /\ clients[i].made
    /\ LET r == RemoteExists(fs, cwd, clients[i], local)
       IN  last' = Call("exists", i, local, None, r.out, None)
    /\ UNCHANGED <<run, fs, cwd, clients, env>>

\* client.upload(local)
DoUpload(i, local) ==
    /\ clients[i].made
    /\ LET r == Upload(fs, cwd, clients[i], local)
       IN  /\ fs' = r.fs
           /\ last' = Call("upload", i, local, None, r.out, None)
    /\ UNCHANGED <<run, cwd, clients, env>>

\* client.download(local, destination)
DoDownload(i, local, dest) ==
    /\ clients[i].made
    /\ LET r == Download(fs, cwd, clients[i], local, dest)
       IN  /\ fs' = r.fs
           /\ last' = Call("download", i, local, dest, r.out, None)
    /\ UNCHANGED <<run, cwd, clients, env>>

\* find_root_recursively(raise_=raise_), from the working directory
DoFindRoot(raise_) ==
    /\ LET r == find_root_recursively(fs, cwd, None, raise_)
       IN  last' = Call(IF raise_ THEN "find_root_strict" ELSE "find_root",
                        0, None, None, r.out, r.path)
    /\ UNCHANGED <<run, fs, cwd, clients, env>>

\* os.chdir(d)
Chdir(d) ==
    /\ d # cwd
    /\ IsDir(fs, d)
    /\ cwd' = d
    /\ last' = NoCall
    /\ UNCHANGED <<run, fs, clients, env>>

\* a task (or the user) writes a file
EnvWrite(p, c) ==
    /\ IsDir(fs, Parent(p))
    /\ ~IsDir(fs, p)
    /\ ~(IsFile(fs, p) /\ fs[p].data = c)
    /\ fs' = [q \in DOMAIN fs \cup {p} |-> IF q = p THEN FileNode(c) ELSE fs[q]]
    /\ last' = NoCall
    /\ UNCHANGED <<run, cwd, clients, env>>

\* a task (or the user) creates a directory
EnvMkdir(p) ==
    /\ IsDir(fs, Parent(p))
    /\ ~Exists(fs, p)
    /\ fs' = [q \in DOMAIN fs \cup {p} |-> IF q = p THEN DirNode ELSE fs[q]]
    /\ last' = NoCall
    /\ UNCHANGED <<run, cwd, clients, env>>

\* a task (or the user) deletes a file or a whole directory
EnvRemove(p) ==
    /\ Exists(fs, p)
    /\ ~IsPrefix(p, cwd)
    /\ fs' = [q \in DOMAIN fs \ ({p} \cup Below(fs, p)) |-> fs[q]]
    /\ last' = NoCall
    /\ UNCHANGED <<run, cwd, clients, env>>

\* the clients constructed, the mirror looked up
Calls ==
    \/ \E i \in 1..MaxClients, b \in BackupArgs, r \in RootArgs :
           DoConstruct(i, b, r)
    \/ \E i \in 1..MaxClients, l \in LocalArgs : DoExists(i, l)

\* the copies the clients make
Copies ==
    \/ \E i \in 1..MaxClients, l \in LocalArgs : DoUpload(i, l)
    \/ \E i \in 1..MaxClients, a \in DownloadArgs : DoDownload(i, a[1], a[2])

\* the clients used from the project's root while the products come and go
Next ==
    \/ Calls
    \/ Copies
    \/ \E p \in ProductPaths, c \in 1..MaxData : EnvWrite(p, c)
    \/ \E p \in ProductPaths : EnvMkdir(p)
    \/ \E p \in ProductPaths : EnvRemove(p)

Spec == Init /\ [][Next]_vars

\* the clients constructed and used from several working directories while
\* the markers come and go
NextRoot ==
    \/ Calls
    \/ \E i \in 1..MaxClients, l \in LocalArgs : DoMap(i, l)
    \/ cwd = Proj /\ Copies
    \/ \E r \in BOOLEAN : DoFindRoot(r)
    \/ \E d \in Cwds : Chdir(d)
    \/ \E p \in MarkerPaths : EnvWrite(p, 1)
    \/ \E p \in MarkerPaths : EnvRemove(p)

SpecRoot == Init /\ [][NextRoot]_vars

-----------------------------------------------------------------------------
(* The default locations looked up: in the project's directories, a        *)
(* pipeline.yaml may lie at the root, in a package under src/, in the      *)
(* sub-directory s (there as a directory of that name), in a package      *)
(* under s/src/; the lookup is made from the root, from s, from the two    *)
(* last directories of the chain.  The files,                              *)
(* the working directory and the environment are any of these; they do     *)
(* not change while the lookups are made.                                  *)

ResolveEntries ==
    {[path |-> Proj \o <<"pipeline.yaml">>, node |-> FileNode(1)],
     [path |-> Proj \o <<"pipeline.train.yaml">>, node |-> FileNode(1)],
     [path |-> Proj \o <<"src", "pkg", "pipeline.yaml">>, node |-> FileNode(1)],
     [path |-> Proj \o <<"src", "a.egg-info", "pipeline.yaml">>,
      node |-> FileNode(1)],
     [path |-> Proj \o <<"src", "zpkg", "pipeline.yaml">>, node |-> FileNode(1)],
     [path |-> Proj \o <<"setup.py">>, node |-> FileNode(1)],
     [path |-> Sub \o <<"pipeline.yaml">>, node |-> DirNode],
     [path |-> Sub \o <<"src", "pkg", "pipeline.yaml">>, node |-> FileNode(1)]}

FsBase == [p \in Prefixes(Deep) \cup {Out} |-> DirNode]

\* the base directories and the entries S, with the directories they lie in
FsOf(S) ==
    LET paths == UNION {Prefixes(e.path) : e \in S}
    IN  [p \in DOMAIN FsBase \cup paths |->
           IF \E e \in S : e.path = p
             THEN (CHOOSE e \in S : e.path = p).node
           ELSE DirNode]

\* the chain's last directory lies six levels below /proj, the one before
\* it five
ResolveCwds == {Proj, Sub, Parent(Deep), Deep}

EntryPointVars ==
    {None, Empty, Rel(<<"pipeline.yaml">>), Rel(<<"missing.yaml">>)}

RootPathArgs == {None, Rel(<<"s">>), Abs(Proj), Rel(<<"..">>)}
NameArgs == {NoName, "train"}

InitResolve ==
    /\ \E S \in SUBSET ResolveEntries : fs = FsOf(S)
    /\ cwd \in ResolveCwds
    /\ clients = [i \in 1..MaxClients |-> NoClient]
    /\ last = NoCall
    /\ \E v \in EntryPointVars : env = [NoEnv EXCEPT !.ENTRY_POINT = v]
    /\ run = NoRun

\* entry_point(root_path, name)
DoEntryPoint(root_path, name) ==
    /\ LET r == entry_point(fs, cwd, env, root_path, name)
       IN  last' = [NoCall EXCEPT !.op = "entry_point", !.arg = root_path,
                                  !.name = name, !.out = r.out,
                                  !.res = r.path]
    /\ UNCHANGED <<run, fs, cwd, clients, env>>

\* entry_point_relative(name)
DoEntryPointRelative(name) ==
    /\ LET r == entry_point_relative(fs, cwd, name)
       IN  last' = [NoCall EXCEPT !.op = "entry_point_relative",
                                  !.name = name, !.out = r.out,
                                  !.res = r.path]
    /\ UNCHANGED <<run, fs, cwd, clients, env>>

NextResolve ==
    \/ \E root_path \in RootPathArgs, name \in NameArgs :
           DoEntryPoint(root_path, name)
    \/ \E name \in NameArgs : DoEntryPointRelative(name)

SpecResolve == InitResolve /\ [][NextResolve]_vars

-----------------------------------------------------------------------------
(* The project root looked up: markers may lie at the top /proj, in the    *)
(* package directory /proj/s; the lookup is made from the top, from the    *)
(* package, from the directory nested in it, from the bottom of the chain  *)
(* (five levels below the package, six below the top).                     *)

MarkerEntries ==
    {[path |-> Proj \o <<"environment.yml">>, node |-> FileNode(1)],
     [path |-> Proj \o <<"requirements.txt">>, node |-> FileNode(1)],
     [path |-> Proj \o <<"setup.py">>, node |-> FileNode(1)],
     [path |-> Sub \o <<"environment.yml">>, node |-> FileNode(1)],
     [path |-> Sub \o <<"setup.py">>, node |-> FileNode(1)]}

Nested == Sub \o <<"a">>

MarkerCwds == {Proj, Sub, Nested, Deep}

InitMarkers ==
    /\ \E S \in SUBSET MarkerEntries : fs = FsOf(S)
    /\ cwd \in MarkerCwds
    /\ clients = [i \in 1..MaxClients |-> NoClient]
    /\ last = NoCall
    /\ env = NoEnv
    /\ run = NoRun

NextMarkers == \E r \in BOOLEAN : DoFindRoot(r)

SpecMarkers == InitMarkers /\ [][NextMarkers]_vars

-----------------------------------------------------------------------------
(* The env file looked up: env.yaml, env.train.yaml and a file my.yaml may *)
(* lie in /proj and in /proj/s; the lookup is made from /proj and from     *)
(* /proj/s, for a spec in s or for the parent directory s, with            *)
(* PLOOMBER_ENV_FILENAME not set, empty, a bare file name, a path.         *)

EnvEntries ==
    {[path |-> Append(d, n), node |-> FileNode(1)] :
        d \in {Proj, Sub}, n \in {"env.yaml", "env.train.yaml", "my.yaml"}}

EnvCwds == {Proj, Sub}

EnvFilenameVars ==
    {None, Empty, Rel(<<"my.yaml">>), Rel(<<"conf", "my.yaml">>)}

PathToSpecArgs == {None, Rel(<<"s">>), Rel(<<"s", "Makefile">>),
             Rel(<<"pipeline.train.yaml">>),
             Rel(<<"s", "pipeline.yaml">>),
             Rel(<<"s", "pipeline.train.yaml">>)}

ParentArgs == {None, Empty, Rel(<<"s">>), Abs(Sub)}

InitEnv ==
    /\ \E S \in SUBSET EnvEntries : fs = FsOf(S)
    /\ cwd \in EnvCwds
    /\ clients = [i \in 1..MaxClients |-> NoClient]
    /\ last = NoCall
    /\ \E v \in EnvFilenameVars :
           env = [NoEnv EXCEPT !.PLOOMBER_ENV_FILENAME = v]
    /\ run = NoRun

\* path_to_env(path_to_spec)
DoPathToEnv(path_to_spec) ==
    /\ LET r == path_to_env(fs, cwd, env, path_to_spec)
       IN  last' = [NoCall EXCEPT !.op = "path_to_env", !.arg = path_to_spec,
                                  !.out = r.out, !.res = r.path]
    /\ UNCHANGED <<run, fs, cwd, clients, env>>

\* path_to_env_with_name(name, path_to_parent)
DoPathToEnvWithName(name, path_to_parent) ==
    /\ LET r == path_to_env_with_name(fs, cwd, env, name, path_to_parent)
       IN  last' = [NoCall EXCEPT !.op = "path_to_env_with_name",
                                  !.arg = path_to_parent, !.name = name,
                                  !.out = r.out, !.res = r.path]
    /\ UNCHANGED <<run, fs, cwd, clients, env>>

NextEnv ==
    \/ \E s \in PathToSpecArgs : DoPathToEnv(s)
    \/ \E n \in NameArgs, p \in ParentArgs : DoPathToEnvWithName(n, p)

SpecEnv == InitEnv /\ [][NextEnv]_vars

-----------------------------------------------------------------------------
(* What the claims speak of *)

\* local resolves to a location under client c's project root
InTree(c, local, wd) == IsPrefix(c.root, ResolveLocal(local, wd))

\* the location of local's mirror entry
MirrorOf(c, local, wd) == Resolve(RemotePath(c, local, wd).path, wd)

\* where download(local, dest) writes
DestOf(local, dest, wd) == Resolve(IF dest = None THEN local ELSE dest, wd)

\* g is f with nothing changed or removed and only directories on the way to
\* p added
OnlyParentsAdded(f, g, p) ==
    /\ \A q \in DOMAIN f : q \in DOMAIN g /\ g[q] = f[q]
    /\ \A q \in DOMAIN g \ DOMAIN f :
           q \in Prefixes(Parent(p)) /\ g[q] = DirNode

\* a regular file lies where download needs destination's parent directory
ParentBlocked(f, p) == \E q \in Prefixes(Parent(p)) : IsFile(f, q)

-----------------------------------------------------------------------------
(* Two tasks use one client at the same time, a call each.  The products:  *)
(* the directory x with its file y, the file w; they lie in the project,   *)
(* in the mirror, or in both (with other contents).  The executor keeps    *)
(* apart in time ("per_key") the calls on the same artifact key, or        *)
(* ("per_tree") the calls whose paths are the same or lie one below the    *)
(* other.                                                                  *)

ConcClient == [made |-> TRUE, backup |-> Abs(<<"bk">>), root |-> Proj]

LocalProducts ==
    (Proj \o <<"x">> :> DirNode) @@ (Proj \o <<"x", "y">> :> FileNode(1))
      @@ (Proj \o <<"w">> :> FileNode(2))

MirrorProducts ==
    (<<"bk", "x">> :> DirNode) @@ (<<"bk", "x", "y">> :> FileNode(2))
      @@ (<<"bk", "w">> :> FileNode(1))

ConcFs ==
    LET base == (<<"bk">> :> DirNode) @@ Fs0
    IN  {LocalProducts @@ base, MirrorProducts @@ base,
         LocalProducts @@ MirrorProducts @@ base}

ConcCalls ==
    {Task("upload", l, None) :
         l \in {Rel(<<"x">>), Rel(<<"x", "y">>), Rel(<<"w">>)}}
      \cup {Task("download", l, None) :
                l \in {Rel(<<"x">>), Rel(<<"x", "y">>), Rel(<<"w">>)}}
      \cup {Task("download", Rel(<<"x", "y">>), Abs(<<"out", "n", "z">>)),
            Task("download", Rel(<<"w">>), Abs(<<"out", "n", "v">>))}
      \cup {Task("exists", l, None) : l \in {Rel(<<"x", "y">>), Rel(<<"w">>)}}
      \cup {Task("map", Rel(<<"x", "y">>), None)}

Policies == {"per_key", "per_tree"}

InitConc ==
    /\ fs \in ConcFs
    /\ cwd = Proj
    /\ clients = [i \in 1..MaxClients |-> IF i = 1 THEN ConcClient ELSE NoClient]
    /\ last = NoCall
    /\ env = NoEnv
    /\ \E policy \in Policies, t1 \in ConcCalls, t2 \in ConcCalls :
           run = [policy |-> policy, overlapped |-> FALSE, fs0 |-> fs,
                  tasks |-> <<t1, t2>>]

\* the artifact key of a call
Key(t) == ResolveLocal(t.arg, cwd)

\* the paths a call reads or writes
Touched(t) ==
    LET c == clients[1]
    IN  IF ~InTree(c, t.arg, cwd) \/ t.op = "map" THEN {}
        ELSE IF t.op = "exists" THEN {MirrorOf(c, t.arg, cwd)}
        ELSE IF t.op = "upload"
          THEN {Resolve(t.arg, cwd), MirrorOf(c, t.arg, cwd)}
        ELSE {MirrorOf(c, t.arg, cwd), DestOf(t.arg, t.dest, cwd)}

\* the executor does not let t and u overlap in time
KeptApart(t, u) ==
    \/ Key(t) = Key(u)
    \/ /\ run.policy = "per_tree"
       /\ \E a \in Touched(t), b \in Touched(u) : IsPrefix(a, b) \/ IsPrefix(b, a)

Running(t) == t.pc \notin {"idle", "done"}

\* task k makes its next system call
TaskRuns(k) ==
    LET t == run.tasks[k]
        u == run.tasks[3 - k]
    IN  /\ t.pc # "done"
        /\ t.pc = "idle" => ~(Running(u) /\ KeptApart(t, u))
        /\ \E n \in TaskStep(fs, cwd, clients[1], t) :
               /\ fs' = n.fs
               /\ run' = [run EXCEPT !.tasks[k] = n.task,
                                     !.overlapped = @ \/ Running(u)]
        /\ UNCHANGED <<cwd, clients, last, env>>

NextConc == \E k \in 1..2 : TaskRuns(k)

SpecConc == InitConc /\ [][NextConc]_vars

-----------------------------------------------------------------------------
(* C1: upload(X) followed by download(X), X an in-tree file or directory,  *)
(* completes without error and leaves at X the content that was uploaded.  *)
(* Stated in the state an upload has just completed in: the download of    *)
(* the same path by the same client succeeds and X's content is unchanged. *)
C1_RoundTrip ==
    (last.op = "upload" /\ last.out = "ok") =>
        LET r == Download(fs, cwd, clients[last.cid], last.arg, None)
            X == ResolveLocal(last.arg, cwd)
        IN  r.out = "ok" /\ Content(r.fs, X) = Content(fs, X)

(* C2: upload(local_path) succeeds whether local_path is a file or a       *)
(* directory and whether or not the mirror already holds an entry, and     *)
(* afterwards the mirror entry is exactly local_path's current content.    *)
C2_UploadOverwrites ==
    (/\ last.op = "upload"
     /\ InTree(clients[last.cid], last.arg, cwd)
     /\ Exists(fs, ResolveLocal(last.arg, cwd))) =>
        /\ last.out = "ok"
        /\ Content(fs, MirrorOf(clients[last.cid], last.arg, cwd))
             = Content(fs, ResolveLocal(last.arg, cwd))

(* C3: in every reachable state upload, download and exists of a path that *)
(* does not resolve under the project root fail with the out-of-tree error *)
(* (ValueError) and change nothing: no file, no directory, no client field,*)
(* so that what follows behaves as if the call had not been made.          *)
C3_OutOfTreeFails ==
    /\ \A i \in Made, l \in LocalArgs :
           ~InTree(clients[i], l, cwd) =>
               /\ Upload(fs, cwd, clients[i], l) = [out |-> "ValueError", fs |-> fs]
               /\ RemoteExists(fs, cwd, clients[i], l)
                    = [out |-> "ValueError", fs |-> fs]
               /\ \A a \in DownloadArgs :
                      a[1] = l => Download(fs, cwd, clients[i], l, a[2])
                                    = [out |-> "ValueError", fs |-> fs]
    /\ (/\ last.op \in {"upload", "download", "exists"}
        /\ ~InTree(clients[last.cid], last.arg, cwd)) => last.out = "ValueError"

(* C3, the case reached: an out-of-tree download has just failed while the *)
(* product and its mirror entry exist.                                     *)
C3_Witness ==
    /\ last.op = "download"
    /\ last.arg = Rel(<<"..", "out", "x">>)
    /\ last.out = "ValueError"
    /\ IsFile(fs, Proj \o <<"x">>)
    /\ Exists(fs, <<"bk", "x">>)

(* C5: download of a key whose mirror path holds neither a file nor a      *)
(* directory fails with RemoteFileNotFound and leaves nothing behind but   *)
(* destination's (empty) parent directories.                               *)
C5_MissingAlwaysRemoteNotFound ==
    (/\ last.op = "download"
     /\ InTree(clients[last.cid], last.arg, cwd)
     /\ ~Exists(fs, MirrorOf(clients[last.cid], last.arg, cwd))) =>
        last.out = "RemoteFileNotFound"

(* C5, amended: such a download fails with RemoteFileNotFound, unless a   *)
(* regular file lies where destination's parent directory is needed: then *)
(* the mkdir error is raised and nothing changes.  In the first case the  *)
(* only change is the creation of destination's missing parent            *)
(* directories: nothing is created at destination, the mirror is as it    *)
(* was.                                                                    *)
C5_MissingDownload ==
    \A i \in Made, a \in DownloadArgs :
        (/\ InTree(clients[i], a[1], cwd)
         /\ ~Exists(fs, MirrorOf(clients[i], a[1], cwd))) =>
            LET r == Download(fs, cwd, clients[i], a[1], a[2])
                dest == DestOf(a[1], a[2], cwd)
                bk == Resolve(clients[i].backup, cwd)
            IN  IF ParentBlocked(fs, dest)
                  THEN /\ r.out \in {"FileExistsError", "NotADirectoryError"}
                       /\ r.fs = fs
                ELSE /\ r.out = "RemoteFileNotFound"
                     /\ OnlyParentsAdded(fs, r.fs, dest)
                     /\ Content(r.fs, dest) = Content(fs, dest)
                     /\ Content(r.fs, bk) = Content(fs, bk)

(* C5, the case reached: a download of a missing key to /out/n/z has just *)
(* failed, leaving the directory /out/n and nothing at /out/n/z.          *)
C5_Witness ==
    /\ last.op = "download"
    /\ last.out = "RemoteFileNotFound"
    /\ last.dest = Abs(<<"out", "n", "z">>)
    /\ IsDir(fs, <<"out", "n">>)
    /\ ~Exists(fs, <<"out", "n", "z">>)

(* C6: when the mirror holds an entry for local_path, download by a        *)
(* freshly constructed client (same backup and project root) writes that   *)
(* entry's content at destination, creating the missing parent             *)
(* directories: a file for a mirror file, the whole subtree for a mirror   *)
(* directory.                                                              *)
C6_FreshClientDownload ==
    \A a \in DownloadArgs :
        (/\ last.op = "construct" /\ last.out = "ok"
         /\ InTree(clients[last.cid], a[1], cwd)
         /\ Exists(fs, MirrorOf(clients[last.cid], a[1], cwd))) =>
            LET r == Download(fs, cwd, clients[last.cid], a[1], a[2])
            IN  /\ r.out = "ok"
                /\ Content(r.fs, DestOf(a[1], a[2], cwd))
                     = Content(fs, MirrorOf(clients[last.cid], a[1], cwd))

-----------------------------------------------------------------------------
(* The mapping, the discovery of the root: checked under SpecRoot *)

\* the paths map may be called with: the same location is named by several
\* of them, depending on the working directory
MapArgs == LocalArgs \cup {Abs(Proj \o <<"x">>), Abs(<<"out", "x">>),
                           Rel(<<"s", "x">>), Rel(<<"..", "x">>)}

\* the k-th ancestor of a directory ("/" is its own parent)
RECURSIVE Ancestor(_, _)
Ancestor(dir, k) == IF k = 0 THEN dir ELSE Ancestor(Parent(dir), k - 1)

\* no marker lies in one of the directories the walk up from dir probes
NoMarkerWithin(f, dir) ==
    \A k \in 0..(MaxLevelsUp - 1), j \in 1..Len(Options) :
        ~Exists(f, Append(Ancestor(dir, k), Options[j]))

\* the root a discovery from the working directory yields now (None if none)
RootNow(f, wd) == find_root_recursively(f, wd, None, FALSE).path

(* C4, as claimed: the same local path always gives the same mirror path,  *)
(* whatever operations or working-directory changes happen in between.     *)
C4_SamePathSameMirror ==
    [][\A i \in Made, l \in MapArgs :
           (/\ RemotePath(clients[i], l, cwd).out = "ok"
            /\ RemotePath(clients'[i], l, cwd').out = "ok") =>
               RemotePath(clients'[i], l, cwd').path
                 = RemotePath(clients[i], l, cwd).path]_vars

\* C4, amended, at one point of the run: the mirror path is BackupRoot/r, r
\* the location's path relative to ProjectRoot, and two calls give the same
\* mirror path exactly when they name the same location
C4_MappingNow ==
    /\ \A i \in Made :
           LET named == {[loc |-> ResolveLocal(l, w),
                          mirror |-> RemotePath(clients[i], l, w)] :
                            l \in MapArgs, w \in Cwds}
               inTree == {n \in named : IsPrefix(clients[i].root, n.loc)}
           IN  /\ \A n \in inTree :
                      n.mirror = [out |-> "ok",
                                  path |-> Join(clients[i].backup,
                                                Suffix(clients[i].root, n.loc))]
               /\ \A n1 \in inTree, n2 \in inTree :
                      (n1.mirror.path = n2.mirror.path) <=> (n1.loc = n2.loc)
    /\ (last.op = "map" /\ InTree(clients[last.cid], last.arg, cwd)) =>
           /\ last.out = "ok"
           /\ last.res = Join(clients[last.cid].backup,
                              Suffix(clients[last.cid].root,
                                     ResolveLocal(last.arg, cwd)))

\* a constructed client keeps its two roots
ClientsKeepRoots ==
    \A i \in 1..MaxClients :
        clients[i].made => clients'[i] = clients[i]

(* C4, amended: for every local path that resolves, against the working    *)
(* directory of the call, to an in-tree location whose path relative to    *)
(* ProjectRoot is r, map returns BackupRoot/r at every point of the run    *)
(* (the same location always gives the same mirror path, whatever          *)
(* operations or working-directory changes happened in between), and two   *)
(* locations with different r never map to the same mirror path.           *)
C4_MirrorMapping == []C4_MappingNow /\ [][ClientsKeepRoots]_vars

(* C4, the case reached: after a change of working directory the relative  *)
(* path x has been mapped from /proj/s, to /bk/s/x.                        *)
C4_Witness ==
    /\ last.op = "map" /\ last.out = "ok"
    /\ cwd = Sub
    /\ last.arg = Rel(<<"x">>)
    /\ clients[last.cid].root = Proj
    /\ last.res = Abs(<<"bk", "s", "x">>)

C9_DiscoveryStable ==
    [][(RootNow(fs, cwd) # None /\ RootNow(fs', cwd') # None) =>
           RootNow(fs', cwd') = RootNow(fs, cwd)]_vars

\* the root a client got without an explicit project root is the one the
\* discovery yields at the time of the construction
C9_RootAtConstruction ==
    (last.op = "construct" /\ last.out = "ok" /\ last.dest = None) =>
        /\ RootNow(fs, cwd) = last.res
        /\ clients[last.cid].root = last.res.parts

\* a constructed client stays constructed, with the same project root
ClientsKeepProjectRoot ==
    \A i \in 1..MaxClients :
        clients[i].made =>
            clients'[i].made /\ clients'[i].root = clients[i].root

(* C9, amended: the project root held by a constructed client is the one   *)
(* determined at its construction and never changes under any sequence of  *)
(* operations, whatever markers are added or removed and wherever the      *)
(* working directory moves; a discovery, on the other hand, is derived     *)
(* anew at every call from the markers and the working directory of that   *)
(* moment.                                                                 *)
C9_ClientRootFixed == []C9_RootAtConstruction /\ [][ClientsKeepProjectRoot]_vars

(* C9, the case reached: a client holds /proj as its root while a          *)
(* discovery from the working directory now yields /proj/s.                *)
C9_Witness ==
    /\ \E i \in Made : clients[i].root = Proj
    /\ last.op = "find_root" /\ last.res = Abs(Sub)

(* C22: the construction of a client changes the filesystem only when it  *)
(* succeeds: then the backup directory exists, its missing parents made    *)
(* and nothing else changed; a construction that fails because no project  *)
(* root is found leaves the filesystem as it was, with no backup directory *)
(* created.                                                                *)
C22_ConstructFrame ==
    [][last'.op = "construct" =>
          LET bk == Resolve(last'.arg, cwd)
          IN  IF last'.out = "ok"
                THEN /\ IsDir(fs', bk)
                     /\ \A q \in DOMAIN fs : q \in DOMAIN fs' /\ fs'[q] = fs[q]
                     /\ \A q \in DOMAIN fs' \ DOMAIN fs :
                            q \in Prefixes(bk) /\ fs'[q] = DirNode
              ELSE fs' = fs]_vars

-----------------------------------------------------------------------------
(* The entry point: checked under SpecResolve *)

\* the directory root_path designates (the working directory by default)
RootDir(root_path, wd) ==
    IF root_path = None THEN wd ELSE Resolve(root_path, wd)

(* C10, as claimed: every call of entry_point either returns a path that   *)
(* designates an existing file (be it read from the working directory or   *)
(* from root_path) or raises DAGSpecNotFound.                              *)
C10_ExistingOrNotFound ==
    last.op = "entry_point" =>
        \/ last.out = "DAGSpecNotFound"
        \/ /\ last.out = "ok"
           /\ \/ IsFile(fs, Resolve(last.res, cwd))
              \/ IsFile(fs, Resolve(last.res, RootDir(last.arg, cwd)))

(* C10, amended: when ENTRY_POINT is not set (or is empty), every call of  *)
(* entry_point either returns a path to an existing entry (a file, or a    *)
(* directory:                                                              *)
(* existence alone is tested) named pipeline.yaml, or pipeline.{name}.yaml *)
(* when a name is given, or raises DAGSpecNotFound; the path is to be read *)
(* from root_path, or from the working directory when it is the package    *)
(* location under root_path.  When ENTRY_POINT has a value, that value is  *)
(* returned as it is, whether or not such a file exists.                   *)
C10_EntryPointExists ==
    last.op = "entry_point" =>
        IF Truthy(env.ENTRY_POINT)
          THEN last.out = "ok" /\ last.res = env.ENTRY_POINT
        ELSE \/ last.out = "DAGSpecNotFound" /\ last.res = None
             \/ /\ last.out = "ok"
                /\ last.res # None
                /\ last.res.parts # <<>>
                /\ last.res.parts[Len(last.res.parts)] = Filename(last.name)
                /\ \/ Exists(fs, Resolve(last.res, RootDir(last.arg, cwd)))
                   \/ /\ Exists(fs, Resolve(last.res, cwd))
                      /\ \E d \in 1..Len(PkgNames) :
                             last.res = Join(IF last.arg = None
                                               THEN Rel(<<>>) ELSE last.arg,
                                             <<"src", PkgNames[d],
                                               Filename(last.name)>>)

(* C10, the case reached: with ENTRY_POINT not set, a lookup made from the *)
(* sub-directory s has returned the package location under the project's   *)
(* root.                                                                   *)
C10_Witness ==
    /\ last.op = "entry_point" /\ last.out = "ok"
    /\ env.ENTRY_POINT = None
    /\ cwd = Proj
    /\ last.arg = Rel(<<"s">>)
    /\ last.res = Rel(<<"..", "src", "pkg", "pipeline.yaml">>)

(* C11, as claimed: when ENTRY_POINT is set, entry_point returns its value  *)
(* as it is, for every root_path, every name and every filesystem content. *)
C11_OverrideVerbatim ==
    (last.op = "entry_point" /\ env.ENTRY_POINT # None) =>
        (last.out = "ok" /\ last.res = env.ENTRY_POINT)

(* C11, amended: when ENTRY_POINT is set to a non-empty value, entry_point  *)
(* returns that value as it is, for every root_path, every name and every  *)
(* filesystem content (no discovery rule runs); when it is set to the      *)
(* empty string, entry_point does what it does when the variable is not    *)
(* set.                                                                    *)
C11_NonEmptyOverrideVerbatim ==
    /\ (last.op = "entry_point" /\ Truthy(env.ENTRY_POINT)) =>
           (last.out = "ok" /\ last.res = env.ENTRY_POINT)
    /\ \A r \in RootPathArgs, n \in NameArgs :
           entry_point(fs, cwd, env, r, n) =
               IF Truthy(env.ENTRY_POINT)
                 THEN [out |-> "ok", path |-> env.ENTRY_POINT]
               ELSE entry_point(fs, cwd, NoEnv, r, n)

(* C11, the case reached: ENTRY_POINT names a file that does not exist, a  *)
(* pipeline.yaml lies in the working directory and another in a package    *)
(* under src/; the value of ENTRY_POINT has been returned.                 *)
C11_Witness ==
    /\ last.op = "entry_point" /\ last.out = "ok"
    /\ env.ENTRY_POINT = Rel(<<"missing.yaml">>)
    /\ last.res = Rel(<<"missing.yaml">>)
    /\ cwd = Proj
    /\ ~Exists(fs, Proj \o <<"missing.yaml">>)
    /\ IsFile(fs, Proj \o <<"pipeline.yaml">>)
    /\ IsFile(fs, Proj \o <<"src", "pkg", "pipeline.yaml">>)

\* root_path as entry_point takes it (the working directory by default)
RootGiven(root_path) == IF Truthy(root_path) THEN root_path ELSE Rel(<<>>)

\* the packages of directory dir holding an entry of that name, those of
\* the .egg-info directories left out, by their rank in sorted order
Matches(f, dir, filename) ==
    {i \in 1..Len(PkgNames) :
        /\ Exists(f, dir \o <<"src", PkgNames[i], filename>>)
        /\ ~IsEggInfo(PkgNames[i])}

FirstMatch(f, dir, filename) ==
    PkgNames[CHOOSE i \in Matches(f, dir, filename) :
                 \A j \in Matches(f, dir, filename) : i <= j]

NearestAbove(f, dir, filename, n) ==
    LET ks == {k \in 1..n : Exists(f, Append(Ancestor(dir, k), filename))}
    IN  IF ks = {} THEN 0 ELSE CHOOSE k \in ks : \A j \in ks : k <= j

(* C13: with ENTRY_POINT unset and neither a manifest directly in          *)
(* root_path nor a package candidate under it, entry_point returns the     *)
(* manifest of the nearest parent directory that has one, for a manifest   *)
(* k levels above root_path, k from 1 to 6.                                *)
C13_AncestorWithinSix ==
    (last.op = "entry_point" /\ env.ENTRY_POINT = None) =>
        LET dir == RootDir(last.arg, cwd)
            F == Filename(last.name)
            k == NearestAbove(fs, dir, F, MaxLevelsUp)
        IN  (/\ ~Exists(fs, dir \o <<F>>)
             /\ Matches(fs, dir, F) = {}
             /\ k > 0) =>
                /\ last.out = "ok"
                /\ Resolve(last.res, dir) = Append(Ancestor(dir, k), F)

\* no entry of that name lies in a directory the walk up from dir probes
NoneWithin(f, dir, filename) ==
    \A k \in 0..(MaxLevelsUp - 1) :
        ~Exists(f, Append(Ancestor(dir, k), filename))

\* rules 1 to 4 of entry_point all fail: no override, no manifest directly
\* in root_path, no package candidate under it, none found by the walk up
RulesOneToFourFail(f, wd, e, root_path, name) ==
    /\ ~Truthy(e.ENTRY_POINT)
    /\ Matches(f, RootDir(root_path, wd), Filename(name)) = {}
    /\ NoneWithin(f, RootDir(root_path, wd), Filename(name))

(* C14: when rules 1 to 4 of entry_point all fail, then, if a project root  *)
(* is found from root_path and it has a package manifest under src/*/,     *)
(* that manifest (the first in sorted order) is returned as a path         *)
(* relative to root_path; in every other case entry_point raises           *)
(* DAGSpecNotFound and returns nothing.                                    *)
C14_ProjectRootOrNotFound ==
    (/\ last.op = "entry_point"
     /\ RulesOneToFourFail(fs, cwd, env, last.arg, last.name)) =>
        LET dir == RootDir(last.arg, cwd)
            F == Filename(last.name)
            root == find_root_recursively(fs, cwd, RootGiven(last.arg),
                                          FALSE).path
        IN  IF root # None /\ Matches(fs, root.parts, F) # {}
              THEN LET found == root.parts
                                  \o <<"src", FirstMatch(fs, root.parts, F), F>>
                   IN  /\ last.out = "ok"
                       /\ ~last.res.abs
                       /\ last.res = RelPath(found, dir)
                       /\ Resolve(last.res, dir) = found
            ELSE last.out = "DAGSpecNotFound" /\ last.res = None

(* C14, the case reached: from /proj/s, with no manifest in /proj/s nor in *)
(* /proj, the marker setup.py in /proj and a manifest in the package       *)
(* /proj/src/pkg, that manifest has been returned relative to /proj/s.     *)
C14_Witness ==
    /\ last.op = "entry_point" /\ last.out = "ok"
    /\ RulesOneToFourFail(fs, cwd, env, last.arg, last.name)
    /\ cwd = Sub /\ last.arg = None /\ last.name = NoName
    /\ IsFile(fs, Proj \o <<"setup.py">>)
    /\ last.res = Rel(<<"..", "src", "pkg", "pipeline.yaml">>)

(* C20: entry_point_relative(name) resolves one manifest from the working  *)
(* directory: if both ./pipeline[.name].yaml and a package's               *)
(* src/*/pipeline[.name].yaml exist it raises ValueError and chooses none; *)
(* if neither exists it raises DAGSpecNotFound; if exactly one exists it   *)
(* returns that one's path, relative to the working directory.             *)
C20_RelativeOneOrError ==
    last.op = "entry_point_relative" =>
        LET F == Filename(last.name)
            direct == Exists(fs, Append(cwd, F))
            inPackage == Matches(fs, cwd, F) # {}
        IN  /\ (direct /\ inPackage) =>
                   (last.out = "ValueError" /\ last.res = None)
            /\ (~direct /\ ~inPackage) =>
                   (last.out = "DAGSpecNotFound" /\ last.res = None)
            /\ (direct /\ ~inPackage) =>
                   (last.out = "ok" /\ last.res = Rel(<<F>>))
            /\ (~direct /\ inPackage) =>
                   /\ last.out = "ok"
                   /\ last.res = Rel(<<"src", FirstMatch(fs, cwd, F), F>>)

(* C20, the case reached: pipeline.yaml lies in the working directory and  *)
(* in the package src/pkg, and the lookup has raised ValueError.           *)
C20_Witness ==
    /\ last.op = "entry_point_relative" /\ last.name = NoName
    /\ cwd = Proj
    /\ IsFile(fs, Proj \o <<"pipeline.yaml">>)
    /\ IsFile(fs, Proj \o <<"src", "pkg", "pipeline.yaml">>)
    /\ last.out = "ValueError"

(* C21: for every root_path, whenever entry_point returns through a        *)
(* discovery rule (ENTRY_POINT not set), the returned path is relative to  *)
(* root_path: joined onto root_path it designates the manifest found.      *)
C21_RelativeToRootPath ==
    (/\ last.op = "entry_point" /\ last.out = "ok"
     /\ ~Truthy(env.ENTRY_POINT)) =>
        LET joined == Resolve(last.res, RootDir(last.arg, cwd))
        IN  /\ last.res.parts[Len(last.res.parts)] = Filename(last.name)
            /\ Exists(fs, joined)

-----------------------------------------------------------------------------
(* The project root: checked under SpecMarkers *)

\* the directories the walk up from dir probes
Walked(dir) == {Ancestor(dir, k) : k \in 0..(MaxLevelsUp - 1)}

\* the marker name Options[j] lies in a directory the walk up from dir probes
NameWithin(f, dir, j) == \E d \in Walked(dir) : Exists(f, Append(d, Options[j]))

\* the nearest directory, going up from dir, holding an entry of that name
NearestWith(f, dir, filename) ==
    LET ks == {k \in 0..(MaxLevelsUp - 1) :
                  Exists(f, Append(Ancestor(dir, k), filename))}
    IN  Ancestor(dir, CHOOSE k \in ks : \A j \in ks : k <= j)

\* the last call is a discovery of the project root
RootLookedUp == last.op \in {"find_root", "find_root_strict"}

(* C15: find_root_recursively honours marker priority over proximity: it   *)
(* returns the directory holding the highest-priority marker name that     *)
(* exists anywhere in the directories the walk probes, so a marker of      *)
(* higher priority in a farther parent wins over one of lower priority in  *)
(* a nearer directory.                                                     *)
C15_PriorityOverProximity ==
    \A i \in 1..Len(Options) :
        (/\ NameWithin(fs, cwd, i)
         /\ \A j \in 1..(i - 1) : ~NameWithin(fs, cwd, j)) =>
            /\ \A r \in BOOLEAN :
                   find_root_recursively(fs, cwd, None, r)
                     = [out |-> "ok",
                        path |-> Abs(NearestWith(fs, cwd, Options[i]))]
            /\ RootLookedUp =>
                   /\ last.out = "ok"
                   /\ last.res = Abs(NearestWith(fs, cwd, Options[i]))

(* C15, the case reached: requirements.txt at the top, setup.py in the     *)
(* package directory, the lookup made from the directory nested in the     *)
(* package: the top has been returned.                                     *)
C15_Witness ==
    /\ last.op = "find_root" /\ last.out = "ok"
    /\ cwd = Nested
    /\ IsFile(fs, Proj \o <<"requirements.txt">>)
    /\ ~Exists(fs, Proj \o <<"environment.yml">>)
    /\ ~Exists(fs, Sub \o <<"environment.yml">>)
    /\ IsFile(fs, Sub \o <<"setup.py">>)
    /\ last.res = Abs(Proj)

\* the levels, going up from dir, at which a marker of whatever name lies
MarkerLevels(f, dir) ==
    {k \in 0..(MaxLevelsUp - 1) :
        \E j \in 1..Len(Options) :
            Exists(f, Append(Ancestor(dir, k), Options[j]))}

-----------------------------------------------------------------------------
(* The env file: checked under SpecEnv *)

\* the last call is a lookup of the env file: path_to_env_with_name, or
\* path_to_env for a spec that is no directory and has an extension
EnvLookedUp ==
    \/ last.op = "path_to_env_with_name"
    \/ /\ last.op = "path_to_env"
       /\ last.arg # None =>
              (~IsDir(fs, Resolve(last.arg, cwd)) /\ HasSuffix(last.arg))

\* the name and the parent directory of the last lookup
NameOfLast ==
    IF last.op = "path_to_env_with_name" THEN last.name
    ELSE IF last.arg = None THEN NoName
    ELSE extract_name(last.arg)

ParentOfLast ==
    IF last.op = "path_to_env_with_name" THEN last.arg
    ELSE IF last.arg = None THEN None
    ELSE ParentOf(last.arg)

\* the places of the file of that name, in the order of the lookup: the
\* working directory, next to the parent directory when one is given
Places(wd, parent, filename) ==
    <<Append(wd, filename)>>
      \o (IF Truthy(parent)
            THEN <<Append(Resolve(parent, wd), filename)>> ELSE <<>>)

\* the first of the places where something exists, None if nowhere
FirstExisting(f, places) ==
    LET at == {i \in 1..Len(places) : Exists(f, places[i])}
    IN  IF at = {} THEN None
        ELSE Abs(places[CHOOSE i \in at : \A j \in at : i <= j])

(* C17: with PLOOMBER_ENV_FILENAME unset, path_to_env (for a spec named    *)
(* prefix.{name}.suffix) and path_to_env_with_name(name, parent) both      *)
(* return the first existing of: env.{name}.yaml in the working directory, *)
(* env.{name}.yaml next to the parent directory, env.yaml in the working   *)
(* directory, env.yaml next to the parent directory (the last two only     *)
(* when there is no name), and None, without an error, when none exists.   *)
C17_EnvFilePriority ==
    (EnvLookedUp /\ env.PLOOMBER_ENV_FILENAME = None) =>
        LET named == IF NameOfLast = NoName THEN <<>>
                     ELSE Places(cwd, ParentOfLast, EnvFilename(NameOfLast))
            default == Places(cwd, ParentOfLast, "env.yaml")
        IN  /\ last.out = "ok"
            /\ last.res = FirstExisting(fs, named \o default)

(* C18: when PLOOMBER_ENV_FILENAME holds a value with a directory          *)
(* component, path_to_env_with_name raises ValueError for every name and   *)
(* every parent directory, also when no parent directory is given.         *)
C18_InvalidOverrideRaises ==
    (/\ last.op = "path_to_env_with_name"
     /\ Truthy(env.PLOOMBER_ENV_FILENAME)
     /\ Len(env.PLOOMBER_ENV_FILENAME.parts) > 1) =>
        (last.out = "ValueError" /\ last.res = None)

(* C19: when PLOOMBER_ENV_FILENAME holds a bare file name, the lookup      *)
(* returns the file of that name from the working directory if it exists   *)
(* there, else from next to the parent directory if it exists there, and   *)
(* raises FileNotFoundError if it exists in neither place, for every       *)
(* parent directory, also when none is given; it never returns None.       *)
C19_NamedFileOrNotFound ==
    (/\ EnvLookedUp
     /\ Truthy(env.PLOOMBER_ENV_FILENAME)
     /\ Len(env.PLOOMBER_ENV_FILENAME.parts) = 1) =>
        LET found == FirstExisting(fs, Places(cwd, ParentOfLast,
                                     env.PLOOMBER_ENV_FILENAME.parts[1]))
        IN  IF found # None THEN last.out = "ok" /\ last.res = found
            ELSE last.out = "FileNotFoundError" /\ last.res = None

-----------------------------------------------------------------------------
(* The concurrent tasks: checked under SpecConc *)

RunDone == run.policy # "none" /\ \A k \in 1..2 : run.tasks[k].pc = "done"

\* the outcomes and the files are those of the two calls made one after the
\* other, first then second
AsInOrder(first, second) ==
    LET a == WholeCall(run.fs0, cwd, clients[1], run.tasks[first])
        b == WholeCall(a.fs, cwd, clients[1], run.tasks[second])
    IN  /\ run.tasks[first].out = a.out /\ run.tasks[first].res = a.res
        /\ run.tasks[second].out = b.out /\ run.tasks[second].res = b.res
        /\ fs = b.fs

Serializable == AsInOrder(1, 2) \/ AsInOrder(2, 1)

(* C7, as claimed: when the executor keeps apart in time the calls on the  *)
(* same artifact key, every call returns the outcome, and the local and    *)
(* mirror contents are in the end, what they are in some sequential        *)
(* execution of the calls.                                                 *)
C7_SerializablePerKey ==
    (RunDone /\ run.policy = "per_key") => Serializable

(* C7, amended: when the executor keeps apart in time the calls on the     *)
(* same artifact key and the calls of which a path (the local path, the    *)
(* mirror path, the destination) is a path of the other call or lies above *)
(* or below one, every call returns the outcome, and the local and mirror  *)
(* contents are in the end, what they are in some sequential execution of  *)
(* the calls.                                                              *)
C7_SerializablePerTree ==
    (RunDone /\ run.policy = "per_tree") => Serializable

(* C7, the case reached: two downloads of distinct keys into the same new  *)
(* directory have overlapped in time and both are done.                    *)
C7_Witness ==
    /\ RunDone /\ run.policy = "per_tree" /\ run.overlapped
    /\ run.tasks[1].op = "download" /\ run.tasks[1].dest = Abs(<<"out", "n", "z">>)
    /\ run.tasks[2].op = "download" /\ run.tasks[2].dest = Abs(<<"out", "n", "v">>)
    /\ run.tasks[1].out = "ok" /\ run.tasks[2].out = "ok"

=============================================================================
